---- MODULE Spec2Model ----
(***************************************************************************)
(* Model of apply_kernelsu.py: the text mutators ensure_line_in_file and   *)
(* set_defconfig_symbol, the source copier, the optional patch step and    *)
(* the orchestration in main.                                              *)
(*                                                                         *)
(* A file's text is a sequence of one-character strings.  Offsets are      *)
(* 0-based as in Python: the character at offset i of text is text[i+1].   *)
(***************************************************************************)
EXTENDS Integers, Sequences, FiniteSets, TLC

VARIABLES
    \* ensure_line_in_file applied to one file
    lfText,      \* current text of the file
    lfLine,      \* the literal line argument
    lfRegex,     \* the after_regex argument
    lfOrig,      \* text of the file before the first call
    lfPrev,      \* text of the file before the latest call
    lfCalls,     \* number of calls made so far
    \* set_defconfig_symbol applied to one file
    dcText,      \* current text of the defconfig
    dcSym,       \* the sym argument
    dcValue,     \* the value argument
    dcOrig,      \* text of the defconfig before the first call
    dcCalls,     \* number of calls made so far
    \* one kernel tree and the runs of main on it
    pc,          \* the step main is about to execute
    run,         \* number of the current run of main
    fs,          \* the four build files of the kernel tree
    dst,         \* the directory <kernel>/drivers/kernelsu
    src,         \* the directory <KernelSU>/kernel
    patchExists, \* patches/rmx3265_build_fixes.patch exists
    gitTree,     \* state of the kernel checkout with respect to the patch
    patchResult, \* outcome of apply_optional_patch in the current run
    exitMsg,     \* the SystemExit message of the current run
    stdout,      \* what the current run has printed
    startFs,     \* fs when the current run started
    startDst     \* dst when the current run started

lfVars == <<lfText, lfLine, lfRegex, lfOrig, lfPrev, lfCalls>>
dcVars == <<dcText, dcSym, dcValue, dcOrig, dcCalls>>
mainVars == <<pc, run, fs, dst, src, patchExists, gitTree, patchResult,
              exitMsg, stdout, startFs, startDst>>
vars == <<lfVars, dcVars, mainVars>>

(***************************************************************************)
(* Bounds                                                                  *)
(***************************************************************************)
MaxLines == 4       \* lines in an initial file text
MaxCalls == 2       \* consecutive calls of a mutator on the same file
MaxRuns == 2        \* runs of main on the same kernel tree

(***************************************************************************)
(* Python str primitives                                                   *)
(***************************************************************************)
NL == "\n"

\* text[a:b]
Slice(text, a, b) == SubSeq(text, a + 1, b)

\* text.startswith(lit, i)
StartsWithAt(text, lit, i) ==
    /\ i + Len(lit) <= Len(text)
    /\ SubSeq(text, i + 1, i + Len(lit)) = lit

\* lit in text
Contains(lit, text) ==
    \E i \in 0..(Len(text) - Len(lit)) : StartsWithAt(text, lit, i)

\* text.find(ch, start) for a single character ch
Find(text, ch, start) ==
    LET S == {j \in start..(Len(text) - 1) : text[j + 1] = ch}
    IN  IF S = {} THEN -1 ELSE CHOOSE j \in S : \A k \in S : j <= k

\* text.endswith("\n")
EndsWithNL(text) == Len(text) > 0 /\ text[Len(text)] = NL

(***************************************************************************)
(* Regular-expression primitives (module re, flags=re.MULTILINE)           *)
(***************************************************************************)
\* characters matched by \s
IsSpace(ch) == ch \in {" ", "\t", "\n", "\r", "\f"}

\* ^ : start of text or just after a newline
AtLineStart(text, i) == i = 0 \/ text[i] = NL

\* $ : end of text or just before a newline
AtLineEnd(text, i) == i = Len(text) \/ text[i + 1] = NL

\* offset reached by a greedy .* started at i (stops before a newline)
EndOfLine(text, i) ==
    LET j == Find(text, NL, i) IN IF j = -1 THEN Len(text) ELSE j

\* offset reached by a greedy \s* started at i
RECURSIVE SkipSpace(_, _)
SkipSpace(text, i) ==
    IF i < Len(text) /\ IsSpace(text[i + 1]) THEN SkipSpace(text, i + 1) ELSE i

\* the least element of a non-empty set of offsets
MinOf(S) == CHOOSE j \in S : \A k \in S : j <= k
MaxOf(S) == CHOOSE j \in S : \A k \in S : j >= k

(***************************************************************************)
(* The anchors passed as after_regex                                       *)
(***************************************************************************)
NoRegex == "None"
\* r"^obj-\$\(CONFIG_.*\)\s*\+=.*$"
ObjConfigRegex == "^obj-\\$\\(CONFIG_.*\\)\\s*\\+=.*$"
\* a literal anchor that ends in the middle of a line
ObjYRegex == "^obj-y"

ObjConfigPrefix == <<"o","b","j","-","$","(","C","O","N","F","I","G","_">>
ObjYPrefix == <<"o","b","j","-","y">>
PlusEq == <<"+","=">>

\* End offset of the match of ObjConfigRegex that starts at offset i, or -1.
\* The first .* is greedy: the right-most ')' of the line after which
\* \s*\+= matches is taken; the final .*$ runs to the end of that line.
ObjConfigMatchEnd(text, i) ==
    IF ~(AtLineStart(text, i) /\ StartsWithAt(text, ObjConfigPrefix, i))
    THEN -1
    ELSE LET q == i + Len(ObjConfigPrefix)
             P == {p \in q..(EndOfLine(text, q) - 1) :
                      /\ text[p + 1] = ")"
                      /\ StartsWithAt(text, PlusEq, SkipSpace(text, p + 1))}
         IN  IF P = {} THEN -1
             ELSE EndOfLine(text, SkipSpace(text, MaxOf(P) + 1) + Len(PlusEq))

\* End offset of the match of ObjYRegex that starts at offset i, or -1.
ObjYMatchEnd(text, i) ==
    IF AtLineStart(text, i) /\ StartsWithAt(text, ObjYPrefix, i)
    THEN i + Len(ObjYPrefix)
    ELSE -1

RegexMatchEnd(regex, text, i) ==
    IF regex = ObjConfigRegex THEN ObjConfigMatchEnd(text, i)
    ELSE IF regex = ObjYRegex THEN ObjYMatchEnd(text, i)
    ELSE -1

\* the offsets at which a match of regex starts
MatchStarts(regex, text) ==
    {i \in 0..Len(text) : RegexMatchEnd(regex, text, i) # -1}

\* a search that returns the last match instead of the first
re_search_last(regex, text) ==
    LET S == MatchStarts(regex, text)
    IN  IF S = {} THEN -1 ELSE RegexMatchEnd(regex, text, MaxOf(S))

\* m = re.search(regex, text, flags=re.MULTILINE); m.end(0), or -1 for None:
\* the match with the left-most start
re_search(regex, text) ==
    LET S == MatchStarts(regex, text)
    IN  IF S = {} THEN -1 ELSE RegexMatchEnd(regex, text, MinOf(S))

(***************************************************************************)
(* ensure_line_in_file                                                     *)
(***************************************************************************)
\* the append fallback without the end-of-text newline fix
append_line_glued(text, line) == text \o line \o <<NL>>

\* # Fallback: append
append_line(text, line) ==
    (IF ~EndsWithNL(text) THEN text \o <<NL>> ELSE text) \o line \o <<NL>>

\* the anchored insertion at the end offset of the match
insert_after_match(text, line, end) ==
    LET at1 == IF end < Len(text) /\ text[end + 1] # NL
               THEN Find(text, NL, end) ELSE end
        insert_at == IF at1 = -1 THEN Len(text) ELSE at1
        insert == (IF insert_at > 0 /\ text[insert_at] # NL
                   THEN <<NL>> ELSE <<>>) \o line \o <<NL>>
    IN  Slice(text, 0, insert_at) \o insert \o Slice(text, insert_at, Len(text))

\* ensure_line_in_file without the presence check
ensure_line_in_file_nocheck(text, line, after_regex) ==
    IF after_regex # NoRegex /\ re_search(after_regex, text) # -1
    THEN insert_after_match(text, line, re_search(after_regex, text))
    ELSE append_line(text, line)

\* the text written back by ensure_line_in_file(path, line, after_regex),
\* or the unchanged text when it returns without writing
ensure_line_in_file(text, line, after_regex) ==
    IF Contains(line, text) THEN text
    ELSE IF after_regex # NoRegex /\ re_search(after_regex, text) # -1
    THEN insert_after_match(text, line, re_search(after_regex, text))
    ELSE append_line(text, line)

(***************************************************************************)
(* set_defconfig_symbol                                                    *)
(* sym holds only letters, digits and '_', which re.escape leaves alone.   *)
(***************************************************************************)
ConfigPrefix == <<"C","O","N","F","I","G","_">>
WordIs == <<"i","s">>
WordNot == <<"n","o","t">>
WordSet == <<"s","e","t">>

\* f"CONFIG_{sym}={value}"
AssignLine(sym, value) == ConfigPrefix \o sym \o <<"=">> \o value

\* f"CONFIG_{sym}="
AssignPrefix(sym) == ConfigPrefix \o sym \o <<"=">>

\* End offset of the match of
\*   ^#\s*CONFIG_<sym>\s+is\s+not\s+set\s*$\n?
\* that starts at offset i, or -1.  Every \s run but the last is followed by
\* a literal, so it is the whole run; the last \s* backs off to the
\* right-most offset where $ holds, and \n? then takes the newline there.
MarkerMatchEnd(text, sym, i) ==
    IF ~(AtLineStart(text, i) /\ StartsWithAt(text, <<"#">>, i)) THEN -1
    ELSE
    LET a == SkipSpace(text, i + 1)
        b == a + Len(ConfigPrefix \o sym)
        c == SkipSpace(text, b)
        d == c + Len(WordIs)
        e == SkipSpace(text, d)
        f == e + Len(WordNot)
        g == SkipSpace(text, f)
        h == g + Len(WordSet)
        K == {k \in h..SkipSpace(text, h) : AtLineEnd(text, k)}
    IN  IF /\ StartsWithAt(text, ConfigPrefix \o sym, a)
           /\ c > b /\ StartsWithAt(text, WordIs, c)
           /\ e > d /\ StartsWithAt(text, WordNot, e)
           /\ g > f /\ StartsWithAt(text, WordSet, g)
           /\ K # {}
        THEN LET k == MaxOf(K)
             IN  IF k < Len(text) /\ text[k + 1] = NL THEN k + 1 ELSE k
        ELSE -1

\* re.sub(marker, "", text, flags=re.MULTILINE) applied to text[pos:]
RECURSIVE RemoveMarkers(_, _, _)
RemoveMarkers(text, sym, pos) ==
    LET S == {i \in pos..Len(text) : MarkerMatchEnd(text, sym, i) # -1}
    IN  IF S = {} THEN Slice(text, pos, Len(text))
        ELSE Slice(text, pos, MinOf(S))
                 \o RemoveMarkers(text, sym, MarkerMatchEnd(text, sym, MinOf(S)))

\* End offset of the match of ^CONFIG_<sym>=.*$ that starts at i, or -1
AssignMatchEnd(text, sym, i) ==
    IF AtLineStart(text, i) /\ StartsWithAt(text, AssignPrefix(sym), i)
    THEN EndOfLine(text, i + Len(AssignPrefix(sym)))
    ELSE -1

\* re.search(rf"^CONFIG_{sym}=", text, flags=re.MULTILINE) is not None
HasAssignment(text, sym) ==
    \E i \in 0..Len(text) :
        AtLineStart(text, i) /\ StartsWithAt(text, AssignPrefix(sym), i)

\* re.sub(rf"^CONFIG_{sym}=.*$", line, text, flags=re.MULTILINE) on text[pos:]
RECURSIVE ReplaceAssignments(_, _, _, _)
ReplaceAssignments(text, sym, line, pos) ==
    LET S == {i \in pos..Len(text) : AssignMatchEnd(text, sym, i) # -1}
    IN  IF S = {} THEN Slice(text, pos, Len(text))
        ELSE Slice(text, pos, MinOf(S))
                 \o line
                 \o ReplaceAssignments(text, sym, line,
                                       AssignMatchEnd(text, sym, MinOf(S)))

\* set_defconfig_symbol that leaves the disabled markers in place
set_defconfig_symbol_keepmarker(text, sym, value) ==
    IF HasAssignment(text, sym)
    THEN ReplaceAssignments(text, sym, AssignLine(sym, value), 0)
    ELSE (IF ~EndsWithNL(text) THEN text \o <<NL>> ELSE text)
             \o AssignLine(sym, value) \o <<NL>>

\* the text written back by set_defconfig_symbol(defconfig, sym, value)
set_defconfig_symbol(text, sym, value) ==
    LET t1 == RemoveMarkers(text, sym, 0)
        line == AssignLine(sym, value)
    IN  IF HasAssignment(t1, sym)
        THEN ReplaceAssignments(t1, sym, line, 0)
        ELSE (IF ~EndsWithNL(t1) THEN t1 \o <<NL>> ELSE t1) \o line \o <<NL>>

(***************************************************************************)
(* Input texts                                                             *)
(***************************************************************************)
\* "\n".join(ls), followed by a newline when nl
RECURSIVE JoinLines(_)
JoinLines(ls) ==
    IF Len(ls) = 0 THEN <<>>
    ELSE IF Len(ls) = 1 THEN ls[1]
    ELSE ls[1] \o <<NL>> \o JoinLines(Tail(ls))

MakeText(ls, nl) == JoinLines(ls) \o (IF nl THEN <<NL>> ELSE <<>>)

\* all texts of at most n lines drawn from pool, with or without a final newline
TextsOver(pool, n) ==
    {MakeText(ls, nl) : ls \in UNION {[1..k -> pool] : k \in 0..n}, nl \in BOOLEAN}

\* the line registered in drivers/Makefile
KsuObjLine == <<"o","b","j","-","$","(","C","O","N","F","I","G","_","K","S","U",")"," ","+","="," ","k","e","r","n","e","l","s","u","/">>
\* the line registered in drivers/Kconfig
KsuSourceLine == <<"s","o","u","r","c","e"," ","\"","d","r","i","v","e","r","s","/","k","e","r","n","e","l","s","u","/","K","c","o","n","f","i","g","\"">>

ObjLineA == <<"o","b","j","-","$","(","C","O","N","F","I","G","_","A",")"," ","+","="," ","a","/">>
ObjLineB == <<"o","b","j","-","$","(","C","O","N","F","I","G","_","B",")","+","=","b","/">>
ObjYLine == <<"o","b","j","-","y"," ","+","="," ","c","/">>
BlankLine == <<>>
\* a comment that holds KsuObjLine as a fragment
FragmentLine == <<"#"," ","o","b","j","-","$","(","C","O","N","F","I","G","_","K","S","U",")"," ","+","="," ","k","e","r","n","e","l","s","u","/"," ","o","f","f">>

MakefilePool == {ObjLineA, ObjLineB, ObjYLine, BlankLine, FragmentLine}

KSU == <<"K","S","U">>
KSU_DEBUG == <<"K","S","U","_","D","E","B","U","G">>
KPROBES == <<"K","P","R","O","B","E","S">>
KPROBE_EVENTS == <<"K","P","R","O","B","E","_","E","V","E","N","T","S">>

MarkerSuffix == <<" ","i","s"," ","n","o","t"," ","s","e","t">>
\* "# CONFIG_<sym> is not set"
MarkerLine(sym) == <<"#", " ">> \o ConfigPrefix \o sym \o MarkerSuffix

DefconfigPool ==
    { AssignLine(KSU, <<"n">>), MarkerLine(KSU),
      AssignLine(KSU_DEBUG, <<"y">>), MarkerLine(KSU_DEBUG), BlankLine }

MaxCfgLines == 3    \* lines in an initial defconfig text

(***************************************************************************)
(* Files and directories                                                   *)
(***************************************************************************)
NoFile == [exists |-> FALSE, text |-> <<>>]
FileOf(text) == [exists |-> TRUE, text |-> text]

EmptyFiles == [n \in {} |-> <<>>]
NoDir == [exists |-> FALSE, files |-> EmptyFiles]
DirOf(files) == [exists |-> TRUE, files |-> files]

\* read_text: universal newlines turn "\r\n" and "\r" into "\n"
RECURSIVE read_text(_)
read_text(bytes) ==
    LET cr == Find(bytes, "\r", 0)
    IN  IF cr = -1 THEN bytes
        ELSE Slice(bytes, 0, cr) \o <<NL>>
                 \o read_text(Slice(bytes,
                                    IF StartsWithAt(bytes, <<NL>>, cr + 1)
                                    THEN cr + 2 ELSE cr + 1,
                                    Len(bytes)))

\* text.replace(old, new)
RECURSIVE str_replace(_, _, _)
str_replace(text, old, new) ==
    LET S == {i \in 0..(Len(text) - Len(old)) : StartsWithAt(text, old, i)}
    IN  IF S = {} THEN text
        ELSE Slice(text, 0, MinOf(S)) \o new
                 \o str_replace(Slice(text, MinOf(S) + Len(old), Len(text)),
                                old, new)

HOSTLDLIBS_dtc == <<"H","O","S","T","L","D","L","I","B","S","_","d","t","c">>
HOSTLOADLIBES_dtc == <<"H","O","S","T","L","O","A","D","L","I","B","E","S","_","d","t","c">>

NoExit == [kind |-> "none", path |-> ""]
SuccessMsg == "Applied KernelSU (v0.9.5) non-GKI integration + RMX3265 build fixes."

(***************************************************************************)
(* copy_kernelsu_sources                                                   *)
(***************************************************************************)
\* shutil.rmtree(dst)
rmtree(d) == NoDir

\* shutil.copytree(src, dst): every file of s lands in d
copytree(s, d) ==
    DirOf([n \in (DOMAIN s.files) \cup (DOMAIN d.files) |->
              IF n \in DOMAIN s.files THEN s.files[n] ELSE d.files[n]])

\* # Normalize Kconfig LF
normalize_kconfig(d) ==
    IF "Kconfig" \in DOMAIN d.files
    THEN [d EXCEPT !.files["Kconfig"] = read_text(@)]
    ELSE d

\* a copy that merges into an existing destination
copy_kernelsu_sources_merge(s, d) ==
    IF ~s.exists
    THEN [err |-> [kind |-> "KernelSU sources not found at", path |-> "kernel"],
          dst |-> d]
    ELSE [err |-> NoExit, dst |-> normalize_kconfig(copytree(s, d))]

\* the destination directory and the error left by copy_kernelsu_sources
copy_kernelsu_sources(s, d) ==
    IF ~s.exists
    THEN [err |-> [kind |-> "KernelSU sources not found at", path |-> "kernel"],
          dst |-> d]
    ELSE [err |-> NoExit,
          dst |-> normalize_kconfig(
                      copytree(s, IF d.exists THEN rmtree(d) ELSE d))]

(***************************************************************************)
(* apply_optional_patch                                                    *)
(***************************************************************************)
\* git apply --whitespace=nowarn <patch>, run in the kernel checkout: the
\* patch applies to the tree it was made for and to no other, in particular
\* not to a tree that already holds its changes; a failed apply changes
\* nothing.
git_apply(tree) ==
    IF tree = "clean" THEN [ok |-> TRUE, tree |-> "patched"]
    ELSE [ok |-> FALSE, tree |-> tree]

\* a patch step that goes on after a failed application
apply_optional_patch_ignore(exists, tree) ==
    IF ~exists
    THEN [result |-> "absent", err |-> NoExit, tree |-> tree]
    ELSE LET r == git_apply(tree)
         IN  [result |-> IF r.ok THEN "applied" ELSE "failed",
              err |-> NoExit, tree |-> r.tree]

\* outcome of apply_optional_patch
apply_optional_patch(exists, tree) ==
    IF ~exists
    THEN [result |-> "absent", err |-> NoExit, tree |-> tree]
    ELSE LET r == git_apply(tree)
         IN  IF r.ok
             THEN [result |-> "applied", err |-> NoExit, tree |-> r.tree]
             ELSE [result |-> "failed",
                   err |-> [kind |-> "Failed to apply build-fixes patch.",
                            path |-> "patches/rmx3265_build_fixes.patch"],
                   tree |-> r.tree]

(***************************************************************************)
(* patch_kernel_tree                                                       *)
(***************************************************************************)
\* the dtc YAML linking fix
fix_dtc(file) ==
    IF file.exists
    THEN LET dtc_text == read_text(file.text)
         IN  IF Contains(HOSTLDLIBS_dtc, dtc_text)
                  /\ ~Contains(HOSTLOADLIBES_dtc, dtc_text)
             THEN FileOf(str_replace(dtc_text, HOSTLDLIBS_dtc, HOSTLOADLIBES_dtc))
             ELSE file
    ELSE file

\* ensure_line_in_file on a file: it is rewritten only when the line is added
ensure_line_in_path(file, line, after_regex) ==
    IF Contains(line, read_text(file.text)) THEN file
    ELSE FileOf(ensure_line_in_file(read_text(file.text), line, after_regex))

\* set_defconfig_symbol on a file: it is always rewritten
set_defconfig_symbol_in_path(file, sym, value) ==
    FileOf(set_defconfig_symbol(read_text(file.text), sym, value))

\* the line-level mutations of patch_kernel_tree
mutate_tree(f) ==
    [ dtc_makefile |-> fix_dtc(f.dtc_makefile),
      drivers_makefile |->
          ensure_line_in_path(f.drivers_makefile, KsuObjLine, ObjConfigRegex),
      drivers_kconfig |->
          ensure_line_in_path(f.drivers_kconfig, KsuSourceLine, NoRegex),
      defconfig |->
          set_defconfig_symbol_in_path(
              set_defconfig_symbol_in_path(
                  set_defconfig_symbol_in_path(f.defconfig, KSU, <<"y">>),
                  KPROBES, <<"y">>),
              KPROBE_EVENTS, <<"y">>) ]

Missing(path) == [kind |-> "Missing", path |-> path]

\* a patch_kernel_tree that looks for the defconfig only when it needs it
patch_kernel_tree_latecheck(f) ==
    IF ~f.drivers_makefile.exists
    THEN [err |-> Missing("drivers/Makefile"), fs |-> f]
    ELSE IF ~f.drivers_kconfig.exists
    THEN [err |-> Missing("drivers/Kconfig"), fs |-> f]
    ELSE IF ~f.defconfig.exists
    THEN [err |-> Missing("arch/arm64/configs/RMX3265_defconfig"),
          fs |-> [mutate_tree(f) EXCEPT !.defconfig = f.defconfig]]
    ELSE [err |-> NoExit, fs |-> mutate_tree(f)]

\* the files and the error left by patch_kernel_tree
patch_kernel_tree(f) ==
    IF ~f.drivers_makefile.exists
    THEN [err |-> Missing("drivers/Makefile"), fs |-> f]
    ELSE IF ~f.drivers_kconfig.exists
    THEN [err |-> Missing("drivers/Kconfig"), fs |-> f]
    ELSE IF ~f.defconfig.exists
    THEN [err |-> Missing("arch/arm64/configs/RMX3265_defconfig"), fs |-> f]
    ELSE [err |-> NoExit, fs |-> mutate_tree(f)]

(***************************************************************************)
(* Kernel trees and source repositories the runs start from                *)
(***************************************************************************)
ObjLineC == <<"o","b","j","-","$","(","C","O","N","F","I","G","_","C",")"," ","+","="," ","c","/">>
SubdirLine == <<"s","u","b","d","i","r","-","y"," ",":","="," ","d">>

MakefileTexts ==
    { MakeText(<<ObjLineA, ObjLineB, ObjLineC, SubdirLine>>, TRUE),
      MakeText(<<ObjYLine>>, FALSE) }

MenuLine == <<"m","e","n","u"," ","\"","D","r","i","v","e","r","s","\"">>
EndmenuLine == <<"e","n","d","m","e","n","u">>

KconfigTexts ==
    { MakeText(<<MenuLine, EndmenuLine>>, TRUE),
      MenuLine \o <<"\r", NL>> \o EndmenuLine \o <<"\r", NL>> }

DefconfigTexts ==
    { MakeText(<<AssignLine(KSU, <<"n">>), MarkerLine(KPROBES), BlankLine,
                 AssignLine(KPROBE_EVENTS, <<"n">>)>>, FALSE),
      <<>> }

DtcTexts ==
    { HOSTLDLIBS_dtc \o <<" ",":","="," ","-","l","y","a","m","l", NL>>,
      HOSTLOADLIBES_dtc \o <<" ",":","="," ","-","l","y","a","m","l", NL>> }

FilesOf(texts) == {NoFile} \cup {FileOf(t) : t \in texts}

KsuKconfig == <<"c","o","n","f","i","g"," ","K","S","U","\r", NL>>
KsuC == <<"i","n","t"," ","x",";", NL>>
OldText == <<"o","l","d", NL>>

SrcDirs ==
    { NoDir,
      DirOf(EmptyFiles),
      DirOf("ksu.c" :> KsuC),
      DirOf(("Kconfig" :> KsuKconfig) @@ ("ksu.c" :> KsuC)) }

DstDirs ==
    { NoDir,
      DirOf(EmptyFiles),
      DirOf("stale.c" :> OldText),
      DirOf(("Kconfig" :> OldText) @@ ("ksu.c" :> OldText) @@ ("stale.c" :> OldText)) }

(***************************************************************************)
(* main                                                                    *)
(***************************************************************************)
\* the variables of the parts that are not running
LineIdle ==
    /\ lfText = <<>> /\ lfLine = <<>> /\ lfRegex = NoRegex
    /\ lfOrig = <<>> /\ lfPrev = <<>> /\ lfCalls = 0

SymIdle ==
    /\ dcText = <<>> /\ dcSym = <<>> /\ dcValue = <<>>
    /\ dcOrig = <<>> /\ dcCalls = 0

MainIdle ==
    /\ pc = "idle" /\ run = 0
    /\ fs = [drivers_makefile |-> NoFile, drivers_kconfig |-> NoFile,
             defconfig |-> NoFile, dtc_makefile |-> NoFile]
    /\ dst = NoDir /\ src = NoDir
    /\ patchExists = FALSE /\ gitTree = "clean" /\ patchResult = "none"
    /\ exitMsg = NoExit /\ stdout = <<>>
    /\ startFs = fs /\ startDst = dst

Init ==
    /\ pc = "apply_optional_patch"
    /\ run = 1
    /\ fs \in [drivers_makefile : FilesOf(MakefileTexts),
               drivers_kconfig : FilesOf(KconfigTexts),
               defconfig : FilesOf(DefconfigTexts),
               dtc_makefile : FilesOf(DtcTexts)]
    /\ dst \in DstDirs
    /\ src \in SrcDirs
    /\ patchExists \in BOOLEAN
    /\ gitTree \in {"clean", "conflict"}
    /\ patchResult = "none"
    /\ exitMsg = NoExit
    /\ stdout = <<>>
    /\ startFs = fs
    /\ startDst = dst
    /\ LineIdle
    /\ SymIdle

\* main: apply_optional_patch(kernel_repo, builder_root / "patches" / ...)
ApplyOptionalPatch ==
    /\ pc = "apply_optional_patch"
    /\ LET r == apply_optional_patch(patchExists, gitTree)
       IN  /\ gitTree' = r.tree
           /\ patchResult' = r.result
           /\ exitMsg' = r.err
           /\ pc' = IF r.err = NoExit THEN "copy_kernelsu_sources" ELSE "fatal"
    /\ UNCHANGED <<run, fs, dst, src, patchExists, stdout, startFs, startDst,
                   lfVars, dcVars>>

\* main: copy_kernelsu_sources(ksu_repo, kernel_repo)
CopyKernelsuSources ==
    /\ pc = "copy_kernelsu_sources"
    /\ LET r == copy_kernelsu_sources(src, dst)
       IN  /\ dst' = r.dst
           /\ exitMsg' = r.err
           /\ pc' = IF r.err = NoExit THEN "patch_kernel_tree" ELSE "fatal"
    /\ UNCHANGED <<run, fs, src, patchExists, gitTree, patchResult, stdout,
                   startFs, startDst, lfVars, dcVars>>

\* main: patch_kernel_tree(kernel_repo)
PatchKernelTree ==
    /\ pc = "patch_kernel_tree"
    /\ LET r == patch_kernel_tree(fs)
       IN  /\ fs' = r.fs
           /\ exitMsg' = r.err
           /\ pc' = IF r.err = NoExit THEN "print" ELSE "fatal"
    /\ UNCHANGED <<run, dst, src, patchExists, gitTree, patchResult, stdout,
                   startFs, startDst, lfVars, dcVars>>

\* main: print("Applied KernelSU ...") and return
PrintSuccess ==
    /\ pc = "print"
    /\ stdout' = Append(stdout, SuccessMsg)
    /\ pc' = "done"
    /\ UNCHANGED <<run, fs, dst, src, patchExists, gitTree, patchResult,
                   exitMsg, startFs, startDst, lfVars, dcVars>>

\* the script is started again on the tree a successful run left behind
Rerun ==
    /\ pc = "done"
    /\ run < MaxRuns
    /\ run' = run + 1
    /\ pc' = "apply_optional_patch"
    /\ patchResult' = "none"
    /\ exitMsg' = NoExit
    /\ stdout' = <<>>
    /\ startFs' = fs
    /\ startDst' = dst
    /\ UNCHANGED <<fs, dst, src, patchExists, gitTree, lfVars, dcVars>>

Next ==
    \/ ApplyOptionalPatch
    \/ CopyKernelsuSources
    \/ PatchKernelTree
    \/ PrintSuccess
    \/ Rerun

Spec == Init /\ [][Next]_vars

(***************************************************************************)
(* ensure_line_in_file called repeatedly on one file                       *)
(***************************************************************************)
LineInit ==
    /\ lfText \in TextsOver(MakefilePool, MaxLines)
    /\ lfLine = KsuObjLine
    /\ lfRegex \in {NoRegex, ObjConfigRegex, ObjYRegex}
    /\ lfOrig = lfText
    /\ lfPrev = lfText
    /\ lfCalls = 0
    /\ SymIdle
    /\ MainIdle

EnsureLine ==
    /\ lfCalls < MaxCalls
    /\ lfText' = ensure_line_in_file(lfText, lfLine, lfRegex)
    /\ lfPrev' = lfText
    /\ lfCalls' = lfCalls + 1
    /\ UNCHANGED <<lfLine, lfRegex, lfOrig, dcVars, mainVars>>

LineNext == EnsureLine

SpecLine == LineInit /\ [][LineNext]_vars

(***************************************************************************)
(* set_defconfig_symbol called repeatedly on one file                      *)
(***************************************************************************)
SymInit ==
    /\ dcText \in TextsOver(DefconfigPool, MaxCfgLines)
    /\ dcSym \in {KSU, KSU_DEBUG}
    /\ dcValue \in {<<"y">>, <<"m">>}
    /\ dcOrig = dcText
    /\ dcCalls = 0
    /\ LineIdle
    /\ MainIdle

SetDefconfigSymbol ==
    /\ dcCalls < MaxCalls
    /\ dcText' = set_defconfig_symbol(dcText, dcSym, dcValue)
    /\ dcCalls' = dcCalls + 1
    /\ UNCHANGED <<dcSym, dcValue, dcOrig, lfVars, mainVars>>

SymNext == SetDefconfigSymbol

SpecSym == SymInit /\ [][SymNext]_vars

(***************************************************************************)
(* Vocabulary of the properties: files as sequences of lines               *)
(***************************************************************************)
\* the lines of a text; a final newline ends the last line
RECURSIVE Lines(_)
Lines(text) ==
    IF Len(text) = 0 THEN <<>>
    ELSE LET j == Find(text, NL, 0)
         IN  IF j = -1 THEN <<text>>
             ELSE <<Slice(text, 0, j)>> \o Lines(Slice(text, j + 1, Len(text)))

\* number of occurrences of lit in text
CountSub(lit, text) ==
    Cardinality({i \in 0..(Len(text) - Len(lit)) : StartsWithAt(text, lit, i)})

\* number of lines of ls equal to l
CountLine(ls, l) == Cardinality({k \in 1..Len(ls) : ls[k] = l})

\* l stands in text as a whole line that ends with a newline
HasWholeLine(text, l) ==
    \E i \in 0..(Len(text) - Len(l) - 1) :
        /\ AtLineStart(text, i)
        /\ StartsWithAt(text, l \o <<NL>>, i)

\* ls with x inserted after its first k elements
InsertAt(ls, k, x) == SubSeq(ls, 1, k) \o <<x>> \o SubSeq(ls, k + 1, Len(ls))

\* a is b with some elements left out
RECURSIVE IsSubseq(_, _)
IsSubseq(a, b) ==
    IF Len(a) = 0 THEN TRUE
    ELSE IF Len(b) = 0 THEN FALSE
    ELSE IF Head(a) = Head(b) THEN IsSubseq(Tail(a), Tail(b))
    ELSE IsSubseq(a, Tail(b))

\* l is a conditional-build line: obj-$(CONFIG_...) += ...
IsObjConfigLine(l) ==
    /\ StartsWithAt(l, ObjConfigPrefix, 0)
    /\ \E p \in (Len(ObjConfigPrefix) + 1)..Len(l) :
         \E q \in p..Len(l) :
            /\ l[p] = ")"
            /\ \A k \in (p + 1)..q : IsSpace(l[k])
            /\ StartsWithAt(l, PlusEq, q)

AnchorMatchesLine(regex, l) ==
    IF regex = ObjConfigRegex THEN IsObjConfigLine(l)
    ELSE IF regex = ObjYRegex THEN StartsWithAt(l, ObjYPrefix, 0)
    ELSE FALSE

\* the numbers of the lines of text the anchor matches
MatchingLines(regex, text) ==
    {k \in 1..Len(Lines(text)) : AnchorMatchesLine(regex, Lines(text)[k])}

\* the call inserted lfLine with an anchor that matches two or more lines
AnchoredInsertion ==
    /\ lfCalls >= 1
    /\ ~Contains(lfLine, lfOrig)
    /\ Cardinality(MatchingLines(lfRegex, lfOrig)) >= 2

\* lfLine is line k+1 of the file and the first k lines are the original ones
InsertedAfterLine(k) ==
    /\ Len(Lines(lfText)) > k
    /\ Lines(lfText)[k + 1] = lfLine
    /\ SubSeq(Lines(lfText), 1, k) = SubSeq(Lines(lfOrig), 1, k)

C4_AlwaysWholeLine ==
    lfCalls >= 1 => HasWholeLine(lfText, lfLine)

\* C4 amended: if the line is not a substring of the original text, the
\* file holds it as a whole newline-terminated line after the call; if it
\* is a substring, even only inside a longer line, the file is unchanged.
C4_WholeLineUnlessSubstring ==
    lfCalls >= 1 =>
        IF Contains(lfLine, lfOrig)
        THEN lfText = lfOrig
        ELSE HasWholeLine(lfText, lfLine)

\* the line was appended to a text whose last line had no newline
C4_Witness ==
    /\ lfCalls = 1
    /\ lfRegex = NoRegex
    /\ Len(lfOrig) > 0 /\ ~EndsWithNL(lfOrig)
    /\ ~Contains(lfLine, lfOrig)
    /\ HasWholeLine(lfText, lfLine)

\* C5: if the original text holds the line at most once, then after two
\* calls it holds the line exactly once and the second call changed nothing.
C5_NoDuplicate ==
    (lfCalls >= 2 /\ CountSub(lfLine, lfOrig) <= 1) =>
        /\ CountSub(lfLine, lfText) = 1
        /\ lfText = lfPrev

\* two calls on a text that lacked the line, the first one anchored
C5_Witness ==
    /\ lfCalls = 2
    /\ CountSub(lfLine, lfOrig) = 0
    /\ lfRegex = ObjConfigRegex
    /\ MatchingLines(lfRegex, lfOrig) # {}
    /\ lfText # lfOrig

\* C9: a call that changes the file inserts the line as one new element of
\* the sequence of lines and leaves every other line where it was, adding
\* no blank line.
C9_OnlyOneLineInserted ==
    (lfCalls >= 1 /\ lfText # lfPrev) =>
        \E k \in 0..Len(Lines(lfPrev)) :
            Lines(lfText) = InsertAt(Lines(lfPrev), k, lfLine)

(***************************************************************************)
(* Properties of set_defconfig_symbol                                      *)
(***************************************************************************)
\* l assigns a value to sym: CONFIG_<sym>=...
IsAssignmentOf(l, sym) == StartsWithAt(l, AssignPrefix(sym), 0)

\* number of assignment lines for sym in text
CountAssignments(text, sym) ==
    Cardinality({k \in 1..Len(Lines(text)) :
                    IsAssignmentOf(Lines(text)[k], sym)})

\* the lines of text that concern other symbols or none
OtherLines(text, sym) ==
    LET Other(l) == ~IsAssignmentOf(l, sym) /\ l # MarkerLine(sym)
    IN  SelectSeq(Lines(text), Other)

\* C3 as stated: after the call the file holds CONFIG_<sym>=<value> exactly
\* once and no disabled marker of sym, whatever the original text.
C3_ExactlyOnce ==
    dcCalls >= 1 =>
        /\ CountLine(Lines(dcText), AssignLine(dcSym, dcValue)) = 1
        /\ CountLine(Lines(dcText), MarkerLine(dcSym)) = 0

\* C3 amended: after the call the file holds no disabled marker of sym and
\* no assignment of sym other than CONFIG_<sym>=<value>; that line stands
\* once when the original had at most one assignment line for sym, and
\* once per original assignment line when it had several.
C3_OncePerAssignment ==
    dcCalls >= 1 =>
        /\ CountLine(Lines(dcText), MarkerLine(dcSym)) = 0
        /\ CountAssignments(dcText, dcSym)
               = CountLine(Lines(dcText), AssignLine(dcSym, dcValue))
        /\ CountLine(Lines(dcText), AssignLine(dcSym, dcValue))
               = IF CountAssignments(dcOrig, dcSym) = 0 THEN 1
                 ELSE CountAssignments(dcOrig, dcSym)

\* CONFIG_KSU=n and a disabled marker of KSU became the single CONFIG_KSU=y
C3_Witness ==
    /\ dcCalls = 1
    /\ dcSym = KSU
    /\ dcValue = <<"y">>
    /\ dcOrig = MakeText(<<AssignLine(KSU, <<"n">>), MarkerLine(KSU)>>, TRUE)
    /\ Lines(dcText) = <<AssignLine(KSU, <<"y">>)>>

\* C10: every line that is neither an assignment nor the disabled marker of
\* sym is still there after the call, in the same relative order.
C10_OtherLinesKept ==
    dcCalls >= 1 =>
        IsSubseq(OtherLines(dcOrig, dcSym), OtherLines(dcText, dcSym))

(***************************************************************************)
(* Properties of the runs of main                                          *)
(***************************************************************************)
RequiredMissing(f) ==
    \/ ~f.drivers_makefile.exists
    \/ ~f.drivers_kconfig.exists
    \/ ~f.defconfig.exists

\* the file an error message names does not exist in f
NamedFileMissing(f, path) ==
    \/ path = "drivers/Makefile" /\ ~f.drivers_makefile.exists
    \/ path = "drivers/Kconfig" /\ ~f.drivers_kconfig.exists
    \/ path = "arch/arm64/configs/RMX3265_defconfig" /\ ~f.defconfig.exists

Finished == pc \in {"done", "fatal"}

\* C2: a second run on the tree a successful first run left behind also
\* succeeds and leaves every mutated file as the first run left it.
C2_SecondRunSucceedsUnchanged ==
    (run >= 2 /\ Finished) =>
        /\ pc = "done"
        /\ fs = startFs
        /\ dst = startDst

\* C6: with a required file missing the run never gets past
\* patch_kernel_tree; it stops with an error naming a missing file, and
\* patch_kernel_tree has written to none of the four build files.
C6_MissingFileIsFatalBeforeWrites ==
    /\ pc \in {"print", "done"} => ~RequiredMissing(startFs)
    /\ exitMsg.kind = "Missing" =>
           /\ pc = "fatal"
           /\ NamedFileMissing(startFs, exitMsg.path)
           /\ fs = startFs

\* the defconfig is missing and the drivers Makefile still lacks the line
C6_Witness ==
    /\ pc = "fatal"
    /\ exitMsg = Missing("arch/arm64/configs/RMX3265_defconfig")
    /\ fs.drivers_makefile.exists
    /\ fs.dtc_makefile.exists
    /\ ~Contains(KsuObjLine, fs.drivers_makefile.text)
    /\ Contains(HOSTLDLIBS_dtc, fs.dtc_makefile.text)

\* C7: a patch that exists and fails to apply ends the run at that step:
\* nothing was copied or edited and no success message was printed; and a
\* run that is past the patch step had no patch or applied it.
C7_PatchFailureStopsRun ==
    /\ patchResult = "failed" =>
           /\ pc = "fatal"
           /\ exitMsg.kind = "Failed to apply build-fixes patch."
           /\ fs = startFs
           /\ dst = startDst
           /\ stdout = <<>>
    /\ pc \in {"copy_kernelsu_sources", "patch_kernel_tree", "print", "done"} =>
           \/ ~patchExists /\ patchResult = "absent"
           \/ patchExists /\ patchResult = "applied"
    /\ exitMsg.kind \in {"KernelSU sources not found at", "Missing"} =>
           patchResult \in {"absent", "applied"}

\* the patch exists and does not apply to the tree
C7_Witness ==
    /\ patchExists
    /\ patchResult = "failed"
    /\ pc = "fatal"
    /\ src.exists
    /\ ~RequiredMissing(fs)

\* C8: after a successful copy drivers/kernelsu holds exactly the files of
\* <KernelSU>/kernel, with their contents (Kconfig with LF line ends); when
\* <KernelSU>/kernel is missing the call fails and leaves the destination
\* as it was.
C8_DestinationMirrorsSource ==
    /\ (pc \in {"patch_kernel_tree", "print", "done"} \/ exitMsg.kind = "Missing") =>
           /\ src.exists
           /\ dst.exists
           /\ DOMAIN dst.files = DOMAIN src.files
           /\ \A n \in DOMAIN src.files :
                  dst.files[n] = IF n = "Kconfig" THEN read_text(src.files[n])
                                 ELSE src.files[n]
    /\ exitMsg.kind = "KernelSU sources not found at" =>
           /\ pc = "fatal"
           /\ ~src.exists
           /\ dst = startDst

\* the destination held a stale file that the copy removed
C8_Witness ==
    /\ pc = "patch_kernel_tree"
    /\ "stale.c" \in DOMAIN startDst.files
    /\ "stale.c" \notin DOMAIN dst.files
    /\ "ksu.c" \in DOMAIN dst.files

====
